---------------------------- MODULE Spec2Model ----------------------------
(***************************************************************************)
(* Model of zadanie_3.py: simulation of two non-homogeneous Poisson        *)
(* processes on a fixed time grid, their superposition, the cumulative     *)
(* event counts and the closed-form cumulative intensities.                *)
(*                                                                         *)
(* Times handled by generate_poisson_process, cumulative_events and the    *)
(* merge are binary floating-point numbers.  A float is modelled as a      *)
(* natural number (a count of a fixed power-of-two unit) that has at most  *)
(* Precision significant bits; every arithmetic result is rounded to the   *)
(* nearest such number, ties to even, as IEEE-754 does.  float64 has 53    *)
(* significant bits; Precision is the model's (smaller) width.  Rounding   *)
(* leaves the first 2^(Precision-1) multiples of a float distinct, so the  *)
(* grids of the model are kept no longer than that (float64 grids are far  *)
(* shorter than 2^52).                                                     *)
(*                                                                         *)
(* The closed-form functions are evaluated in exact rational arithmetic    *)
(* on the script's decimal parameters.                                     *)
(***************************************************************************)
EXTENDS Integers, Sequences, FiniteSets

VARIABLES
    pc,                  \* position in the script
    T,                   \* horizon (float)
    dt,                  \* step (float)
    increments_1,        \* Poisson draws of the first generator call
    increments_2,        \* Poisson draws of the second generator call
    process_1,           \* events of process 1
    process_2,           \* events of process 2
    combined_process,    \* merged events
    cum_events_1,        \* cumulative counts of process 1
    cum_events_2,        \* cumulative counts of process 2
    cum_events_combined, \* cumulative counts of the merge
    theory               \* evaluation of the closed-form functions

vars == <<pc, T, dt, increments_1, increments_2, process_1, process_2,
          combined_process, cum_events_1, cum_events_2, cum_events_combined,
          theory>>

\* ------------------------------------------------------------------ bounds

\* Significant bits of a modelled float.
Precision == 5
\* Largest Poisson draw at one grid point.
MaxDraw == 2
\* Inputs of the whole script: largest horizon / step, longest grid.
MaxT == 6
MaxGrid == 3
\* Inputs of a single generator call: largest horizon / step, longest grid.
MaxTWide == 40
MaxGridWide == 4
\* Arbitrary event sequences: largest timestamp, most timestamps
\* in the two sequences together.
MaxVal == 3
MaxLen == 3
\* Closed-form functions: the largest time evaluated, in steps of dt.
MaxStep == 2500

\* ------------------------------------------------------------------ floats

RECURSIVE Pow2(_)
Pow2(n) == IF n = 0 THEN 1 ELSE 2 * Pow2(n - 1)

\* Largest e with 2^e <= n, for n >= 1.
RECURSIVE FloorLog2(_)
FloorLog2(n) == IF n < 2 THEN 0 ELSE 1 + FloorLog2(n \div 2)

\* Smallest j with a * 2^j >= b, for a >= 1.
RECURSIVE ShiftUp(_, _)
ShiftUp(a, b) == IF a >= b THEN 0 ELSE 1 + ShiftUp(2 * a, b)

\* x / y rounded to the nearest integer, ties to even.
RoundHalfEvenDiv(x, y) ==
    LET q == x \div y
        r == x % y
    IN  IF 2 * r > y \/ (2 * r = y /\ q % 2 = 1) THEN q + 1 ELSE q

\* The float nearest to the natural number n.
FloatRound(n) ==
    IF n < Pow2(Precision) THEN n
    ELSE LET s == Pow2(FloorLog2(n) - Precision + 1)
         IN  RoundHalfEvenDiv(n, s) * s

IsFloat(n) == FloatRound(n) = n

\* i * x in floating point: i is an exact integer, x a float.
FloatMul(i, x) == FloatRound(i * x)

\* ceil(a / b), the division done in floating point, for floats a, b >= 1.
FloatDivCeil(a, b) ==
    LET e == IF a >= b THEN FloorLog2(a \div b) ELSE 0 - ShiftUp(a, b)
        k == Precision - 1 - e
    IN  IF k >= 0
        THEN LET m == RoundHalfEvenDiv(a * Pow2(k), b)
             IN  (m + Pow2(k) - 1) \div Pow2(k)
        ELSE RoundHalfEvenDiv(a, b * Pow2(0 - k)) * Pow2(0 - k)

\* ------------------------------------------------------------------ grid

\* np.arange(0, T, dt): ceil((T - 0) / dt) points, the i-th being 0 + i * dt.
time_points(T_, dt_) ==
    [i \in 1..FloatDivCeil(T_, dt_) |-> FloatMul(i - 1, dt_)]

\* a[mask]: the elements of a whose mask entry is TRUE, in order.
RECURSIVE MaskSelect(_, _)
MaskSelect(a, mask) ==
    IF a = <<>> THEN <<>>
    ELSE LET rest == MaskSelect(Tail(a), Tail(mask))
         IN  IF Head(mask) THEN <<Head(a)>> \o rest ELSE rest

\* Mutant: keeps a grid point only when its draw is exactly 1.
generate_poisson_process_exactly_one(increments, T_, dt_) ==
    LET tp == time_points(T_, dt_)
    IN  MaskSelect(tp, [i \in DOMAIN tp |-> increments[i] = 1])

RECURSIVE RepeatSelect(_, _)
RepeatSelect(a, n) ==
    IF a = <<>> THEN <<>>
    ELSE [j \in 1..Head(n) |-> Head(a)] \o RepeatSelect(Tail(a), Tail(n))

\* Mutant: keeps a grid point as many times as its draw.
generate_poisson_process_multi(increments, T_, dt_) ==
    RepeatSelect(time_points(T_, dt_), increments)

\* generate_poisson_process, given the Poisson draws of np.random.poisson.
generate_poisson_process(increments, T_, dt_) ==
    LET tp == time_points(T_, dt_)
    IN  MaskSelect(tp, [i \in DOMAIN tp |-> increments[i] > 0])

\* Mutant: counts the events strictly before t.
cumulative_events_strict(events, T_, dt_) ==
    LET tp == time_points(T_, dt_)
    IN  [i \in DOMAIN tp |->
            Cardinality({j \in DOMAIN events : events[j] < tp[i]})]

\* Mutant: counts the events at t only.
cumulative_events_equal(events, T_, dt_) ==
    LET tp == time_points(T_, dt_)
    IN  [i \in DOMAIN tp |->
            Cardinality({j \in DOMAIN events : events[j] = tp[i]})]

\* Mutant: counts the distinct timestamps <= t.
cumulative_events_distinct(events, T_, dt_) ==
    LET tp == time_points(T_, dt_)
    IN  [i \in DOMAIN tp |->
            Cardinality({events[j] : j \in {m \in DOMAIN events : events[m] <= tp[i]}})]

\* cumulative_events: for each grid point t, the number of events <= t.
cumulative_events(events, T_, dt_) ==
    LET tp == time_points(T_, dt_)
    IN  [i \in DOMAIN tp |->
            Cardinality({j \in DOMAIN events : events[j] <= tp[i]})]

\* ------------------------------------------------------------------ merge

\* np.concatenate((a, b)).
concatenate(a, b) == a \o b

\* s with x put before its first element greater than x (s ascending).
RECURSIVE Insert(_, _)
Insert(x, s) ==
    IF s = <<>> THEN <<x>>
    ELSE IF x <= Head(s) THEN <<x>> \o s
    ELSE <<Head(s)>> \o Insert(x, Tail(s))

\* Mutant: sorts and drops repeated timestamps (np.unique).
RECURSIVE sort_unique(_)
sort_unique(s) ==
    IF s = <<>> THEN <<>>
    ELSE LET r == sort_unique(Tail(s))
         IN  IF \E j \in DOMAIN r : r[j] = Head(s) THEN r ELSE Insert(Head(s), r)

\* Mutant: leaves the concatenation unsorted.
sort_none(s) == s

\* np.sort: the elements of s in ascending order, repeats kept.
RECURSIVE sort(_)
sort(s) == IF s = <<>> THEN <<>> ELSE Insert(Head(s), sort(Tail(s)))

\* ------------------------------------------------- binary-search counter

\* Number of elements of the ascending sequence s that are <= t, found by
\* bisection on the index range lo..hi (bisect_right).
RECURSIVE BisectRight(_, _, _, _)
BisectRight(s, t, lo, hi) ==
    IF lo >= hi THEN lo
    ELSE LET mid == (lo + hi) \div 2
         IN  IF s[mid + 1] <= t
             THEN BisectRight(s, t, mid + 1, hi)
             ELSE BisectRight(s, t, lo, mid)

bisect_counter(events, T_, dt_) ==
    LET tp == time_points(T_, dt_)
    IN  [i \in DOMAIN tp |-> BisectRight(events, tp[i], 0, Len(events))]

\* ------------------------------------------------------------------ closed forms

RECURSIVE GCD(_, _)
GCD(a, b) == IF b = 0 THEN a ELSE GCD(b, a % b)

Abs(a) == IF a < 0 THEN 0 - a ELSE a

\* The rational n / d (d > 0) in lowest terms, as <<numerator, denominator>>.
Rat(n, d) == LET g == GCD(Abs(n), d) IN <<n \div g, d \div g>>

RAdd(x, y) == Rat(x[1] * y[2] + y[1] * x[2], x[2] * y[2])
RSub(x, y) == Rat(x[1] * y[2] - y[1] * x[2], x[2] * y[2])
RMul(x, y) == Rat(x[1] * y[1], x[2] * y[2])
RNonNeg(x) == x[1] >= 0
RLess(x, y) == x[1] * y[2] < y[1] * x[2]

\* The script's horizon, and its step dt = 1 / dt_inv.
T_script == 10
dt_inv == 100

\* def intensity_function_1(t): return 1 + 0.5 * t
intensity_function_1(t) == RAdd(Rat(1, 1), RMul(Rat(5, 10), t))

\* Mutant: slope 2 instead of 0.2.
intensity_function_2_steep(t) == RSub(Rat(4, 1), RMul(Rat(2, 1), t))

\* def intensity_function_2(t): return 4 - 0.2 * t
intensity_function_2(t) == RSub(Rat(4, 1), RMul(Rat(2, 10), t))

\* Mutant: the integral of 0.5 * t taken as 0.5 * t**2.
cumulative_f_1_unhalved(t) == RAdd(t, RMul(Rat(5, 10), RMul(t, t)))

\* def cumulative_f_1(t): return t + 0.25 * t**2
cumulative_f_1(t) == RAdd(t, RMul(Rat(25, 100), RMul(t, t)))

\* def cumulative_f_2(t): return 4*t - 0.1 * t**2
cumulative_f_2(t) == RSub(RMul(Rat(4, 1), t), RMul(Rat(1, 10), RMul(t, t)))

\* The Poisson mean handed to np.random.poisson at time t.
poisson_mean(intensity, dt_) == RMul(intensity, dt_)

\* ------------------------------------------------------------------ script

Floats(n) == {x \in 1..n : IsFloat(x)}

\* Grids (T, dt) with T, dt <= maxT and at most maxGrid points.
Grids(maxT, maxGrid) ==
    {g \in Floats(maxT) \X Floats(maxT) : FloatDivCeil(g[1], g[2]) <= maxGrid}

\* Event sequences of any order and content, up to n timestamps.
AnyEvents(n) == UNION {[1..m -> 0..MaxVal] : m \in 0..n}

NoTheory == [k |-> 0, evaluated |-> FALSE]

Init ==
    /\ pc = "start"
    /\ \E g \in Grids(MaxT, MaxGrid) : T = g[1] /\ dt = g[2]
    /\ increments_1 = <<>> /\ increments_2 = <<>>
    /\ process_1 = <<>> /\ process_2 = <<>> /\ combined_process = <<>>
    /\ cum_events_1 = <<>> /\ cum_events_2 = <<>> /\ cum_events_combined = <<>>
    /\ theory = NoTheory

\* A single generator call on a wider range of grids.
InitWide ==
    /\ pc = "start"
    /\ \E g \in Grids(MaxTWide, MaxGridWide) : T = g[1] /\ dt = g[2]
    /\ increments_1 = <<>> /\ increments_2 = <<>>
    /\ process_1 = <<>> /\ process_2 = <<>> /\ combined_process = <<>>
    /\ cum_events_1 = <<>> /\ cum_events_2 = <<>> /\ cum_events_combined = <<>>
    /\ theory = NoTheory

\* The merge and the counters applied to event sequences of any origin, on
\* grids that end before, at or after the largest timestamp.
InitAny ==
    /\ pc = "gen2"
    /\ \E g \in Grids(MaxVal + 1, MaxGrid) : T = g[1] /\ dt = g[2]
    /\ increments_1 = <<>> /\ increments_2 = <<>>
    /\ process_1 \in AnyEvents(MaxLen)
    /\ process_2 \in AnyEvents(MaxLen - Len(process_1))
    /\ combined_process = <<>>
    /\ cum_events_1 = <<>> /\ cum_events_2 = <<>> /\ cum_events_combined = <<>>
    /\ theory = NoTheory

\* process_1 = generate_poisson_process(intensity_function_1, T)
Generate1 ==
    /\ pc = "start"
    /\ \E inc \in [DOMAIN time_points(T, dt) -> 0..MaxDraw] :
          /\ increments_1' = inc
          /\ process_1' = generate_poisson_process(inc, T, dt)
    /\ pc' = "gen1"
    /\ UNCHANGED <<T, dt, increments_2, process_2, combined_process,
                   cum_events_1, cum_events_2, cum_events_combined, theory>>

\* process_2 = generate_poisson_process(intensity_function_2, T)
Generate2 ==
    /\ pc = "gen1"
    /\ \E inc \in [DOMAIN time_points(T, dt) -> 0..MaxDraw] :
          /\ increments_2' = inc
          /\ process_2' = generate_poisson_process(inc, T, dt)
    /\ pc' = "gen2"
    /\ UNCHANGED <<T, dt, increments_1, process_1, combined_process,
                   cum_events_1, cum_events_2, cum_events_combined, theory>>

\* combined_process = np.sort(np.concatenate((process_1, process_2)))
Combine ==
    /\ pc = "gen2"
    /\ combined_process' = sort(concatenate(process_1, process_2))
    /\ pc' = "combined"
    /\ UNCHANGED <<T, dt, increments_1, increments_2, process_1, process_2,
                   cum_events_1, cum_events_2, cum_events_combined, theory>>

Cumulative1 ==
    /\ pc = "combined"
    /\ cum_events_1' = cumulative_events(process_1, T, dt)
    /\ pc' = "cum1"
    /\ UNCHANGED <<T, dt, increments_1, increments_2, process_1, process_2,
                   combined_process, cum_events_2, cum_events_combined, theory>>

Cumulative2 ==
    /\ pc = "cum1"
    /\ cum_events_2' = cumulative_events(process_2, T, dt)
    /\ pc' = "cum2"
    /\ UNCHANGED <<T, dt, increments_1, increments_2, process_1, process_2,
                   combined_process, cum_events_1, cum_events_combined, theory>>

CumulativeCombined ==
    /\ pc = "cum2"
    /\ cum_events_combined' = cumulative_events(combined_process, T, dt)
    /\ pc' = "done"
    /\ UNCHANGED <<T, dt, increments_1, increments_2, process_1, process_2,
                   combined_process, cum_events_1, cum_events_2, theory>>

Next ==
    \/ Generate1
    \/ Generate2
    \/ Combine
    \/ Cumulative1
    \/ Cumulative2
    \/ CumulativeCombined

NextAny ==
    \/ Combine
    \/ Cumulative1
    \/ Cumulative2
    \/ CumulativeCombined

Spec == Init /\ [][Next]_vars

SpecWide == InitWide /\ [][Generate1]_vars

SpecAny == InitAny /\ [][NextAny]_vars

\* The script's grid and closed-form functions, in exact arithmetic: T and dt
\* are the script's own, the time evaluated is k * dt for a number of steps k.
InitTheory ==
    /\ pc = "theory"
    /\ T = Rat(T_script, 1) /\ dt = Rat(1, dt_inv)
    /\ increments_1 = <<>> /\ increments_2 = <<>>
    /\ process_1 = <<>> /\ process_2 = <<>> /\ combined_process = <<>>
    /\ cum_events_1 = <<>> /\ cum_events_2 = <<>> /\ cum_events_combined = <<>>
    /\ \E k \in 0..MaxStep : theory = [k |-> k, evaluated |-> FALSE]

Evaluate ==
    /\ pc = "theory"
    /\ ~theory.evaluated
    /\ LET t == RMul(Rat(theory.k, 1), dt)
       IN  theory' = [k |-> theory.k, evaluated |-> TRUE, t |-> t,
                      on_grid |-> RLess(t, T),
                      lam_1 |-> intensity_function_1(t),
                      lam_2 |-> intensity_function_2(t),
                      mean_1 |-> poisson_mean(intensity_function_1(t), dt),
                      mean_2 |-> poisson_mean(intensity_function_2(t), dt),
                      F_1 |-> cumulative_f_1(t),
                      F_2 |-> cumulative_f_2(t)]
    /\ UNCHANGED <<pc, T, dt, increments_1, increments_2, process_1, process_2,
                   combined_process, cum_events_1, cum_events_2,
                   cum_events_combined>>

SpecTheory == InitTheory /\ [][Evaluate]_vars

\* ------------------------------------------------------------------ claims

Count(s, v) == Cardinality({j \in DOMAIN s : s[j] = v})

IsSorted(s) == \A j \in 1..(Len(s) - 1) : s[j] <= s[j + 1]

StrictlyIncreasing(s) == \A j \in 1..(Len(s) - 1) : s[j] < s[j + 1]

Last(s) == s[Len(s)]

\* The counters that have run, as <<events, series>> pairs.
Counted ==
    (IF pc \in {"cum1", "cum2", "done"}
        THEN {<<process_1, cum_events_1>>} ELSE {})
    \cup (IF pc \in {"cum2", "done"}
        THEN {<<process_2, cum_events_2>>} ELSE {})
    \cup (IF pc = "done"
        THEN {<<combined_process, cum_events_combined>>} ELSE {})

\* The generator calls that have returned, as <<increments, events>> pairs.
Generated ==
    (IF pc # "start" THEN {<<increments_1, process_1>>} ELSE {})
    \cup (IF pc \notin {"start", "gen1"}
        THEN {<<increments_2, process_2>>} ELSE {})

\* C1: every timestamp returned by generate_poisson_process is a grid point
\* k * dt with an integer k >= 0 and is strictly below T.
C1_TimestampsOnGridBelowT ==
    \A g \in Generated : \A j \in DOMAIN g[2] :
        /\ g[2][j] < T
        /\ \E k \in 0..T : g[2][j] = FloatMul(k, dt)

\* C2 as stated: whatever the event sequence and the grid, the last entry of
\* the cumulative series is the number of events.
C2_FinalCountIsSize ==
    \A c \in Counted : Last(c[2]) = Len(c[1])

\* C2 amended: the last entry of the cumulative series is the number of
\* events exactly when no timestamp lies after the last grid point.
C2_FinalCountIsSizeWithinGrid ==
    \A c \in Counted :
        (\A j \in DOMAIN c[1] : c[1][j] <= Last(time_points(T, dt)))
            <=> Last(c[2]) = Len(c[1])

C2_Witness ==
    /\ pc = "done"
    /\ Len(process_1) >= 2
    /\ \A j \in DOMAIN process_1 : process_1[j] <= Last(time_points(T, dt))
    /\ \E j \in DOMAIN process_1 : process_1[j] = Last(time_points(T, dt))
    /\ Last(cum_events_1) = Len(process_1)

\* C3: the cumulative series has one entry per grid point, every entry is a
\* natural number, and the entries never decrease along the grid.
C3_SeriesMonotone ==
    \A c \in Counted :
        /\ Len(c[2]) = Len(time_points(T, dt))
        /\ \A i \in DOMAIN c[2] : c[2][i] \in Nat
        /\ \A i \in 1..(Len(c[2]) - 1) : c[2][i] <= c[2][i + 1]

C3_Witness ==
    /\ pc = "done"
    /\ ~IsSorted(process_1)
    /\ Len(cum_events_1) >= 3
    /\ cum_events_1[1] < cum_events_1[2]
    /\ cum_events_1[2] < cum_events_1[3]

\* C4: at every grid point the cumulative count of the merge of two generated
\* sequences is the sum of their two cumulative counts.
C4_SuperpositionAdditive ==
    pc = "done" =>
        /\ Len(cum_events_combined) = Len(cum_events_1)
        /\ \A i \in DOMAIN cum_events_combined :
              cum_events_combined[i] = cum_events_1[i] + cum_events_2[i]

C4_Witness ==
    /\ pc = "done"
    /\ \E i \in DOMAIN process_1 : \E j \in DOMAIN process_2 :
          process_1[i] = process_2[j]
    /\ Len(process_1) >= 2
    /\ Len(process_2) >= 2
    /\ Last(cum_events_combined) = Len(process_1) + Len(process_2)

\* C5: the merge is ascending and is the multiset union of its two inputs:
\* every timestamp occurs as often as in both inputs together.
C5_MergeSortedUnion ==
    pc \in {"combined", "cum1", "cum2", "done"} =>
        /\ IsSorted(combined_process)
        /\ Len(combined_process) = Len(process_1) + Len(process_2)
        /\ \A v \in 0..MaxVal :
              Count(combined_process, v) = Count(process_1, v) + Count(process_2, v)

C5_Witness ==
    /\ pc = "combined"
    /\ ~IsSorted(concatenate(process_1, process_2))
    /\ \E v \in 0..MaxVal :
          /\ Count(process_1, v) = 1
          /\ Count(process_2, v) = 1
          /\ Count(combined_process, v) = 2

\* C6: cumulative_f_1(10) = 35 and cumulative_f_2(10) = 30.
C6_ClosedFormsAtTen ==
    (theory.evaluated /\ theory.t = Rat(10, 1)) =>
        /\ theory.F_1 = Rat(35, 1)
        /\ theory.F_2 = Rat(30, 1)

C6_Witness ==
    /\ theory.evaluated
    /\ theory.t = Rat(10, 1)
    /\ theory.F_1 = Rat(35, 1)

\* C7: a grid point is returned exactly once when its Poisson draw is >= 1,
\* whatever the draw, and not at all when its draw is 0.
C7_OneTimestampPerPositiveDraw ==
    \A g \in Generated : \A i \in DOMAIN time_points(T, dt) :
        Count(g[2], time_points(T, dt)[i]) = IF g[1][i] >= 1 THEN 1 ELSE 0

C7_Witness ==
    /\ pc = "gen1"
    /\ \E i \in DOMAIN increments_1 :
          /\ increments_1[i] >= 2
          /\ Count(process_1, time_points(T, dt)[i]) = 1
    /\ \E i \in DOMAIN increments_1 :
          /\ increments_1[i] = 0
          /\ Count(process_1, time_points(T, dt)[i]) = 0

\* C8: on an ascending event sequence the naive counter and the
\* binary-search counter return the same series.
C8_NaiveEqualsBisect ==
    \A c \in Counted :
        IsSorted(c[1]) => c[2] = bisect_counter(c[1], T, dt)

C8_Witness ==
    /\ pc = "done"
    /\ IsSorted(process_1)
    /\ Len(process_1) = 3
    /\ process_1[1] = process_1[2]
    /\ process_1[2] < process_1[3]
    /\ cum_events_1[1] < Last(cum_events_1)
    /\ cum_events_1 = bisect_counter(process_1, T, dt)

\* C9: at every grid point of the script (T = 10, dt = 0.01) both
\* intensities, and so both Poisson means intensity(t) * dt, are >= 0.
C9_MeansNonNegative ==
    (theory.evaluated /\ theory.on_grid) =>
        /\ RNonNeg(theory.lam_1)
        /\ RNonNeg(theory.lam_2)
        /\ RNonNeg(theory.mean_1)
        /\ RNonNeg(theory.mean_2)

C9_Witness ==
    /\ theory.evaluated
    /\ theory.on_grid
    /\ theory.k = T_script * dt_inv - 1
    /\ RNonNeg(theory.mean_2)

\* C10: a generated sequence is strictly increasing, its cumulative count is
\* at most 1 at the first grid point and rises by at most 1 per step; the
\* cumulative count of the merge of two generated sequences rises by at
\* most 2 per step.
C10_BoundedRises ==
    /\ \A g \in Generated : StrictlyIncreasing(g[2])
    /\ pc = "done" =>
          /\ \A s \in {cum_events_1, cum_events_2} :
                /\ s[1] <= 1
                /\ \A i \in 1..(Len(s) - 1) : s[i + 1] - s[i] <= 1
          /\ \A i \in 1..(Len(cum_events_combined) - 1) :
                cum_events_combined[i + 1] - cum_events_combined[i] <= 2

C10_Witness ==
    /\ pc = "done"
    /\ Len(process_1) >= 2
    /\ \E i \in 1..(Len(cum_events_1) - 1) :
          cum_events_1[i + 1] - cum_events_1[i] = 1
    /\ \E i \in 1..(Len(cum_events_combined) - 1) :
          cum_events_combined[i + 1] - cum_events_combined[i] = 2

=============================================================================
